---- MODULE Spec2Model ----
(***************************************************************************)
(* Model of tutorials/IV.Research.ipynb: the grid of model variations the  *)
(* notebook builds from Options, the configurations the grid generates,    *)
(* and the research run that executes the train and test pipelines for     *)
(* every configuration.                                                    *)
(*                                                                         *)
(* Option, Grid, Pipeline, Dataset and Research are classes of             *)
(* cardio.batchflow, which the notebook only calls; their behaviour is     *)
(* modelled from what the notebook documents about them (its markdown and  *)
(* the recorded cell outputs).                                             *)
(***************************************************************************)
EXTENDS Integers, Sequences, FiniteSets, TLC

\* Largest number of options multiplied in one product of a grid.
MaxFactors == 2
\* Largest number of products summed in one grid.
MaxTerms == 2

\* Number of signals of the dataset (the records matching A*.hea).
DatasetSize == 5
\* Number of experiments of the research that are followed.
MaxExperiments == 2

\* Cell 32. BATCH_SIZE is 32 in the notebook; it is scaled down together
\* with DatasetSize, so that an epoch still has several batches and a
\* dropped remainder.
BATCH_SIZE == 2
EPOCHS == 300

\* Cells 45 and 47.
TEST_EACH_EPOCH == 20
N_REPS == 5

VARIABLES
    grid,       \* the notebook variable `grid`: a Grid, or <<>> before cell 14
    built,      \* how `grid` was written down: [kind, terms]
    configs,    \* the last evaluated list(grid.gen_configs())
    listed,     \* TRUE iff configs was generated from the current grid
    exp,        \* the experiment being run (a configuration and a repetition)
    iteration,  \* iterations of the experiment done so far
    pc,         \* "train", "test" (the test pipeline is due) or "done"
    trainLeft,  \* items of the current epoch the train pipeline has not read
    trainRead,  \* items the 'train' pipeline has read in this experiment
    testRead,   \* items the 'test' pipeline has read in this experiment
    testRuns    \* executions of the 'test' pipeline in this experiment

gridVars == <<grid, built, configs, listed>>
researchVars == <<exp, iteration, pc, trainLeft, trainRead, testRead, testRuns>>
vars == <<gridVars, researchVars>>

----------------------------------------------------------------------------
(* Values, options and grids.                                              *)

\* A Python int or str passed to Option as a value.
PyInt(n) == [t |-> "int", v |-> n]
PyStr(s) == [t |-> "str", v |-> s]

Digit == <<"0", "1", "2", "3", "4", "5", "6", "7", "8", "9">>

\* str(n) of a non-negative int.
RECURSIVE IntToStr(_)
IntToStr(n) ==
    IF n < 10 THEN Digit[n + 1]
    ELSE IntToStr(n \div 10) \o Digit[(n % 10) + 1]

\* A Python class (named by its __name__) or list of ints passed as a value.
PyClass(name) == [t |-> "class", v |-> name]
PyList(ns) == [t |-> "list", v |-> ns]

\* The elements of a list of ints, separated by ', '.
RECURSIVE JoinInts(_)
JoinInts(ns) ==
    IF ns = <<>> THEN ""
    ELSE IF Len(ns) = 1 THEN IntToStr(ns[1])
    ELSE IntToStr(ns[1]) \o ", " \o JoinInts(Tail(ns))

\* The alias under which a value is shown in a configuration: '1' for 1,
\* the name of a class, str() of a list.
Alias(x) ==
    CASE x.t = "int"  -> IntToStr(x.v)
      [] x.t = "list" -> "[" \o JoinInts(x.v) \o "]"
      [] OTHER        -> x.v

\* Option(parameter, values)
Option(parameter, values) == [parameter |-> parameter, values |-> values]

op1 == Option("p1", <<PyInt(1), PyInt(2)>>)
op2 == Option("p2", <<PyStr("v1"), PyStr("v2")>>)
op3 == Option("p1", <<PyInt(4)>>)
op4 == Option("p2", <<PyStr("v3")>>)

\* The options of the experiment (cells 8, 10 and 12).
model_op1 == Option("model", <<PyClass("ResNet18"), PyClass("ResNet34")>>)
model_op2 == Option("model", <<PyClass("ResNet")>>)
input_filters_op1 == Option("input_filters", <<PyInt(64)>>)
input_filters_op2 == Option("input_filters", <<PyInt(32), PyInt(8)>>)
layout_op1 == Option("layout", <<PyStr("cnacna")>>)
layout_op2 == Option("layout", <<PyStr("cna"), PyStr("cnacna")>>)
blocks_op1 == Option("blocks", <<PyList(<<2, 2, 2, 2>>), PyList(<<3, 4, 6, 3>>)>>)
blocks_op2 ==
    Option("blocks", <<PyList(<<2, 3, 4, 5, 4, 3, 2>>), PyList(<<2, 2, 2, 2, 2, 2, 2>>),
                       PyList(<<1, 1, 1, 1, 1, 1, 1>>)>>)
filters_op1 ==
    Option("filters", <<PyList(<<64, 128, 256, 512>>), PyList(<<64, 128, 256, 512>>)>>)
filters_op2 ==
    Option("filters", <<PyList(<<4, 8, 16, 32, 64, 128, 256>>),
                        PyList(<<4, 4, 8, 8, 16, 16, 20>>)>>)

\* The options the cells of the session are written with.
OptionPool == <<op1, op2, op3, op4, filters_op1>>

\* Concatenation of a sequence of sequences.
RECURSIVE Flatten(_)
Flatten(ss) == IF ss = <<>> THEN <<>> ELSE Head(ss) \o Flatten(Tail(ss))

\* Grid(option): one summand holding one option.
GridOfOption(o) == << <<o>> >>

\* Grid.__mul__: every summand of g joined with every summand of h, the
\* summands of g varying slowest.
GridMul(g, h) ==
    Flatten([i \in 1..Len(g) |-> [j \in 1..Len(h) |-> g[i] \o h[j]]])

\* Grid.__add__: the summands of g followed by those of h.
GridAdd(g, h) == g \o h

\* o1 * o2 * ... * on, evaluated left to right.
RECURSIVE MulAll(_)
MulAll(os) ==
    IF Len(os) = 1 THEN GridOfOption(os[1])
    ELSE GridMul(MulAll(SubSeq(os, 1, Len(os) - 1)), GridOfOption(os[Len(os)]))

\* itertools.product(*lists): the leftmost list varies slowest.
RECURSIVE Product(_)
Product(lists) ==
    IF lists = <<>> THEN << <<>> >>
    ELSE LET rest == Product(Tail(lists))
         IN  Flatten([i \in 1..Len(Head(lists)) |->
                        [j \in 1..Len(rest) |-> <<Head(lists)[i]>> \o rest[j]]])

\* ConfigAlias(list(zip(keys, parameters))) shown as a dict: a later pair
\* with the same key replaces an earlier one.
RECURSIVE ConfigAlias(_, _)
ConfigAlias(keys, parameters) ==
    IF keys = <<>> THEN <<>>
    ELSE LET n == Len(keys)
         IN  (keys[n] :> parameters[n])
                 @@ ConfigAlias(SubSeq(keys, 1, n - 1), SubSeq(parameters, 1, n - 1))

\* The configurations of one summand of a grid.
ItemConfigs(item) ==
    LET keys   == [j \in 1..Len(item) |-> item[j].parameter]
        values == [j \in 1..Len(item) |->
                     [i \in 1..Len(item[j].values) |-> Alias(item[j].values[i])]]
        prod   == Product(values)
    IN  [k \in 1..Len(prod) |-> ConfigAlias(keys, prod[k])]

\* Grid.gen_configs(): summand after summand.
gen_configs(g) == Flatten([s \in 1..Len(g) |-> ItemConfigs(g[s])])

\* Option.product(*args): the i-th values of all options, for every i.
RECURSIVE OptionProductFrom(_, _)
OptionProductFrom(os, i) ==
    IF i > Len(os[1].values) THEN <<>>
    ELSE GridAdd(MulAll([j \in 1..Len(os) |->
                            Option(os[j].parameter, <<os[j].values[i]>>)]),
                 OptionProductFrom(os, i + 1))

OptionProduct(os) == OptionProductFrom(os, 1)

----------------------------------------------------------------------------
(* The cells of the notebook that build a grid.                            *)

\* Sequences of 1..MaxFactors options with pairwise different parameters.
Factors ==
    { is \in UNION { [1..n -> 1..Len(OptionPool)] : n \in 1..MaxFactors } :
        \A a, b \in 1..Len(is) :
            a # b => OptionPool[is[a]].parameter # OptionPool[is[b]].parameter }

Opts(is) == [j \in 1..Len(is) |-> OptionPool[is[j]]]

SameLength(os) == \A a, b \in 1..Len(os) : Len(os[a].values) = Len(os[b].values)

\* The sum and the products of cell 14 with the parentheses misplaced:
\* op1 * (op2 + op3) * op4.
ExampleGridMisplaced ==
    GridMul(GridMul(GridOfOption(op1), GridAdd(GridOfOption(op2), GridOfOption(op3))),
            GridOfOption(op4))

\* grid = (op1 * op2 + op3 * op4) of cell 14.
ExampleGrid == GridAdd(MulAll(<<op1, op2>>), MulAll(<<op3, op4>>))

\* Cell 18 written with the ordinary product: op1 * op2.
ProductExampleGridStar == MulAll(<<op1, op2>>)

\* grid = Option.product(op1, op2) of cell 18.
ProductExampleGrid == OptionProduct(<<op1, op2>>)

\* The grid of the experiment (cell 20).
ExperimentGrid ==
    GridAdd(GridMul(GridMul(OptionProduct(<<model_op1, blocks_op1, filters_op1>>),
                            GridOfOption(layout_op1)),
                    GridOfOption(input_filters_op1)),
            MulAll(<<model_op2, layout_op2, input_filters_op2, blocks_op2, filters_op2>>))

GridInit ==
    /\ grid = <<>>
    /\ built = [kind |-> "none", terms |-> <<>>]
    /\ configs = <<>>
    /\ listed = FALSE

\* Cell 14: grid = (op1 * op2 + op3 * op4)
Cell14 ==
    /\ grid' = ExampleGrid
    /\ built' = [kind |-> "sum", terms |-> << <<op1, op2>>, <<op3, op4>> >>]
    /\ configs' = <<>>
    /\ listed' = FALSE
    /\ UNCHANGED researchVars

\* Cell 18: grid = Option.product(op1, op2); list(grid.gen_configs())
Cell18 ==
    /\ grid' = ProductExampleGrid
    /\ built' = [kind |-> "product", terms |-> << <<op1, op2>> >>]
    /\ configs' = gen_configs(grid')
    /\ listed' = TRUE
    /\ UNCHANGED researchVars

\* grid = o1 * ... * on, as the first grid of a session
NewGrid(is) ==
    /\ built.kind = "none"
    /\ grid' = MulAll(Opts(is))
    /\ built' = [kind |-> "sum", terms |-> <<Opts(is)>>]
    /\ configs' = <<>>
    /\ listed' = FALSE
    /\ UNCHANGED researchVars

\* grid = grid + o1 * ... * on
AddProduct(is) ==
    /\ built.kind = "sum"
    /\ Len(built.terms) < MaxTerms
    /\ grid' = GridAdd(grid, MulAll(Opts(is)))
    /\ built' = [built EXCEPT !.terms = Append(@, Opts(is))]
    /\ configs' = <<>>
    /\ listed' = FALSE
    /\ UNCHANGED researchVars

\* grid = Option.product(o1, ..., on); list(grid.gen_configs()), as the
\* first grid of a session
OptionProductCell(is) ==
    /\ built.kind = "none"
    /\ SameLength(Opts(is))
    /\ grid' = OptionProduct(Opts(is))
    /\ built' = [kind |-> "product", terms |-> <<Opts(is)>>]
    /\ configs' = gen_configs(grid')
    /\ listed' = TRUE
    /\ UNCHANGED researchVars

\* grid = grid * o, as in Option.product(...) * layout_op1 of cell 20
MulOption(i) ==
    /\ built.kind = "product"
    /\ \A s \in 1..Len(grid) : \A j \in 1..Len(grid[s]) :
           grid[s][j].parameter # OptionPool[i].parameter
    /\ grid' = GridMul(grid, GridOfOption(OptionPool[i]))
    /\ built' = [kind |-> "mixed", terms |-> Append(built.terms, <<OptionPool[i]>>)]
    /\ configs' = <<>>
    /\ listed' = FALSE
    /\ UNCHANGED researchVars

\* Cell 16: list(grid.gen_configs())
GenConfigs ==
    /\ built.kind # "none"
    /\ ~listed
    /\ configs' = gen_configs(grid)
    /\ listed' = TRUE
    /\ UNCHANGED <<grid, built, researchVars>>

GridNext ==
    \/ Cell14
    \/ Cell18
    \/ \E is \in Factors : NewGrid(is)
    \/ \E is \in Factors : AddProduct(is)
    \/ \E is \in Factors : OptionProductCell(is)
    \/ \E i \in 1..Len(OptionPool) : MulOption(i)
    \/ GenConfigs

----------------------------------------------------------------------------
(* The dataset and the research run (cells 25, 36, 45, 51 and 52).         *)

Max(a, b) == IF a >= b THEN a ELSE b

\* eds = EcgDataset(path=SIGNALS_MASK, no_ext=True, sort=True): the sorted
\* index of the signals.
eds == 1..DatasetSize

\* eds.split(0.8, shuffle=False): the sizes of the two subsets.
TestLen == Max(1, (DatasetSize * 2) \div 10)
TrainLen == DatasetSize - TestLen

\* eds.train and eds.test: without shuffling the train subset is the head
\* of the index and the test subset the rest.
eds_train == 1..TrainLen
eds_test == (TrainLen + 1)..DatasetSize

\* The dataset a pipeline of the research is bound to:
\*   .pipeline(root_train << eds, ..., name="train")
\*   .pipeline(root_test << eds, ..., name="test")
PipelineDataset(name) ==
    CASE name = "train" -> eds
      [] name = "test"  -> eds

\* Cell 45.
TRAIN_SIZE == Cardinality(eds_train)
ITERATIONS == ((TRAIN_SIZE \div BATCH_SIZE) + 1) * EPOCHS
TEST_EXEC_FOR == (ITERATIONS \div EPOCHS) * TEST_EACH_EPOCH

\* One experiment for every configuration of the grid and repetition.
NumExperiments == Len(gen_configs(ExperimentGrid)) * N_REPS

\* execute='%n': the unit is executed when n divides the number of the
\* iteration, counted from 1.
Executes(n, it) == it % n = 0

\* The batches of size BATCH_SIZE a shuffled iterator can give next.
Batches(left) == { b \in SUBSET left : Cardinality(b) = BATCH_SIZE }

\* The items one whole epoch over a dataset reads with shuffle=True and
\* drop_last=True: all but a remainder smaller than a batch.
EpochReads(ds) ==
    { r \in SUBSET ds :
        Cardinality(r) = (Cardinality(ds) \div BATCH_SIZE) * BATCH_SIZE }

ResearchInit ==
    /\ exp = 1
    /\ iteration = 0
    /\ pc = "train"
    /\ trainLeft = PipelineDataset("train")
    /\ trainRead = {}
    /\ testRead = {}
    /\ testRuns = 0

\* What follows the units of iteration `it`.
AfterIteration(it) == IF it = ITERATIONS THEN "done" ELSE "train"

\* One iteration of the 'train' pipeline: root_train gives the next batch
\* (n_epochs=None: a new shuffled epoch starts when fewer than BATCH_SIZE
\* items are left) and model_train trains on it.
TrainStep ==
    /\ pc = "train"
    /\ iteration < ITERATIONS
    /\ LET pool == IF Cardinality(trainLeft) < BATCH_SIZE
                   THEN PipelineDataset("train") ELSE trainLeft
       IN  \E b \in Batches(pool) :
             /\ trainLeft' = pool \ b
             /\ trainRead' = trainRead \cup b
    /\ iteration' = iteration + 1
    /\ pc' = IF Executes(TEST_EXEC_FOR, iteration') THEN "test"
             ELSE AfterIteration(iteration')
    /\ UNCHANGED <<exp, testRead, testRuns, gridVars>>

\* The 'test' pipeline, run=True: one whole epoch (n_epochs=1) of root_test
\* with model_test, then calc_metrics on the gathered metrics.
TestRun ==
    /\ pc = "test"
    /\ \E r \in EpochReads(PipelineDataset("test")) : testRead' = testRead \cup r
    /\ testRuns' = testRuns + 1
    /\ pc' = AfterIteration(iteration)
    /\ UNCHANGED <<exp, iteration, trainLeft, trainRead, gridVars>>

\* The next configuration or repetition starts with fresh pipelines.
NextExperiment ==
    /\ pc = "done"
    /\ exp < NumExperiments
    /\ exp < MaxExperiments
    /\ exp' = exp + 1
    /\ iteration' = 0
    /\ pc' = "train"
    /\ trainLeft' = PipelineDataset("train")
    /\ trainRead' = {}
    /\ testRead' = {}
    /\ testRuns' = 0
    /\ UNCHANGED gridVars

ResearchNext ==
    \/ TrainStep
    \/ TestRun
    \/ NextExperiment

Init == GridInit /\ ResearchInit

SpecGrid == Init /\ [][GridNext]_vars

SpecResearch == Init /\ [][ResearchNext]_vars

----------------------------------------------------------------------------
(* Properties.                                                             *)

\* The set of parameters of a product of options.
Params(term) == { term[j].parameter : j \in 1..Len(term) }

\* The number of the option of a product that sets parameter p.
FactorOf(term, p) == CHOOSE j \in 1..Len(term) : term[j].parameter = p

\* The number of value lists' combinations of the options from..Len(term).
RECURSIVE SizeFrom(_, _)
SizeFrom(term, from) ==
    IF from > Len(term) THEN 1
    ELSE Len(term[from].values) * SizeFrom(term, from + 1)

TermSize(term) == SizeFrom(term, 1)

\* The number of configurations of the first n products.
RECURSIVE SizeOfTerms(_, _)
SizeOfTerms(terms, n) ==
    IF n = 0 THEN 0 ELSE SizeOfTerms(terms, n - 1) + TermSize(terms[n])

\* The k-th combination (from 0) of the Cartesian product of a product of
\* options, the leftmost option varying slowest: option j takes the value
\* whose index is the j-th digit of k in the mixed radix of the lengths.
Combination(term, k) ==
    [p \in Params(term) |->
        LET j == FactorOf(term, p)
        IN  Alias(term[j].values[((k \div SizeFrom(term, j + 1))
                                      % Len(term[j].values)) + 1])]

\* The configuration that gives every option of `os` its i-th value.
Elementwise(os, i) ==
    [p \in Params(os) |-> Alias(os[FactorOf(os, p)].values[i])]

\* C1: the configurations listed for a grid written as a sum of products of
\* options are the combinations of the Cartesian product of every product,
\* each at its own position and no others, product after product in the
\* order they were added and, inside a product, the leftmost option varying
\* slowest; for op1 * op2 + op3 * op4 these are the five configurations
\* (1,v1), (1,v2), (2,v1), (2,v2), (4,v3) in this order.
C1_SumOfProducts ==
    (listed /\ built.kind = "sum") =>
        /\ Len(configs) = SizeOfTerms(built.terms, Len(built.terms))
        /\ \A t \in 1..Len(built.terms) :
              \A k \in 0..(TermSize(built.terms[t]) - 1) :
                  configs[SizeOfTerms(built.terms, t - 1) + k + 1]
                      = Combination(built.terms[t], k)
        /\ built.terms = << <<op1, op2>>, <<op3, op4>> >> =>
              configs = << ("p1" :> "1") @@ ("p2" :> "v1"),
                           ("p1" :> "1") @@ ("p2" :> "v2"),
                           ("p1" :> "2") @@ ("p2" :> "v1"),
                           ("p1" :> "2") @@ ("p2" :> "v2"),
                           ("p1" :> "4") @@ ("p2" :> "v3") >>

\* The configurations of cell 14's grid have been listed.
C1_Witness ==
    /\ listed
    /\ built.kind = "sum"
    /\ built.terms = << <<op1, op2>>, <<op3, op4>> >>
    /\ grid = ExampleGrid
    /\ Len(configs) = 5

\* C2: Option.product of options with value lists of the same length n
\* lists exactly n configurations, the i-th giving every option its i-th
\* value; for op1 and op2 these are exactly (1,v1) and (2,v2).
C2_ElementwiseProduct ==
    (listed /\ built.kind = "product") =>
        LET os == built.terms[1]
        IN  /\ \A j \in 1..Len(os) : Len(configs) = Len(os[j].values)
            /\ \A i \in 1..Len(configs) : configs[i] = Elementwise(os, i)
            /\ os = <<op1, op2>> =>
                  configs = << ("p1" :> "1") @@ ("p2" :> "v1"),
                               ("p1" :> "2") @@ ("p2" :> "v2") >>

\* The configurations of cell 18's grid have been listed.
C2_Witness ==
    /\ listed
    /\ built.kind = "product"
    /\ built.terms = << <<op1, op2>> >>
    /\ Len(configs) = 2

\* C3: in every experiment the items the 'test' pipeline reads belong to
\* the test subset made by eds.split(0.8, shuffle=False), and none of them
\* is read by the 'train' pipeline.
C3_TestReadsTestSubset ==
    /\ testRead \subseteq eds_test
    /\ testRead \cap trainRead = {}

====
